---- MODULE Spec2Model ----
(***************************************************************************)
(* FrameDAG: ThreadPool and DAG<T>::execute_parallel (src/DAG.h), with the *)
(* diamond client of main (src/unnamed/part_000).                          *)
(*                                                                         *)
(* Threads: the calling thread is thread 0, pool worker k is thread k.     *)
(* NodeIDs are 0-based as in the source; a vector is a sequence, and       *)
(* At(s, i) is s[i] of the source.                                         *)
(***************************************************************************)
EXTENDS Integers, Sequences, FiniteSets, TLC

(* ------------------------------ bounds -------------------------------- *)
MaxNodes == 3
MaxEdges == 2
MaxWorkers == 2
MaxPasses == 2
MaxJobs == 3

(* ------------------------------ helpers ------------------------------- *)
At(s, i) == s[i + 1]

Ids(s) == 0 .. (Len(s) - 1)

Caller == 0

(* std::any: <<>> is the empty any, <<x>> holds x *)
EmptyAny == <<>>

Holds(x) == <<x>>

(* ----------------------------- Graph Store ---------------------------- *)
(* a default-constructed DAG<T>; remaining has no initialiser (C++17)     *)
NewDAG(r) ==
  [nodes |-> <<>>, adj |-> <<>>, base_indegree |-> <<>>,
   current_indegree |-> <<>>, remaining |-> r]

add_node(g, data) ==
  [g EXCEPT !.nodes = Append(@, [data |-> data, output |-> EmptyAny]),
            !.adj = Append(@, <<>>),
            !.base_indegree = Append(@, 0)]

(* mutant: the edge is recorded but the in-degree is not counted *)
add_edge_NoIndegree(g, from, to) ==
  IF from >= Len(g.nodes) \/ to >= Len(g.nodes)
  THEN g
  ELSE [g EXCEPT !.adj[from + 1] = Append(@, to)]

(* mutant: only `from` is range-checked *)
add_edge_FromOnly(g, from, to) ==
  IF from >= Len(g.nodes)
  THEN g
  ELSE [g EXCEPT !.adj[from + 1] = Append(@, to),
                 !.base_indegree[to + 1] = @ + 1]

add_edge(g, from, to) ==
  IF from >= Len(g.nodes) \/ to >= Len(g.nodes)
  THEN g
  ELSE [g EXCEPT !.adj[from + 1] = Append(@, to),
                 !.base_indegree[to + 1] = @ + 1]

(* mutant: the remaining counter is not re-armed *)
reset_KeepRemaining(g) ==
  [g EXCEPT !.current_indegree = [i \in 1 .. Len(g.nodes) |-> g.base_indegree[i]]]

(* mutant: the live-counter array is never resized *)
reset_NoResize(g) ==
  [g EXCEPT !.current_indegree = [i \in 1 .. Len(g.current_indegree) |-> g.base_indegree[i]],
            !.remaining = Len(g.nodes)]

(* mutant: the ports are cleared with the counters *)
reset_ClearPorts(g) ==
  [g EXCEPT !.current_indegree = [i \in 1 .. Len(g.nodes) |-> g.base_indegree[i]],
            !.remaining = Len(g.nodes),
            !.nodes = [i \in 1 .. Len(g.nodes) |-> [g.nodes[i] EXCEPT !.output = EmptyAny]]]

reset(g) ==
  [g EXCEPT !.current_indegree = [i \in 1 .. Len(g.nodes) |-> g.base_indegree[i]],
            !.remaining = Len(g.nodes)]

(* mutant: the value has been moved from before it is stored *)
set_port_value_Moved(g, id, value) ==
  [g EXCEPT !.nodes[id + 1].output = EmptyAny]

set_port_value(g, id, value) ==
  [g EXCEPT !.nodes[id + 1].output = value]

get_port_value(g, id) == At(g.nodes, id).output

(* ------------------------- clients (callers) -------------------------- *)
RECURSIVE AddNodes(_, _)
AddNodes(g, names) ==
  IF names = <<>> THEN g
  ELSE AddNodes(add_node(g, Head(names)), Tail(names))

RECURSIVE AddEdges(_, _)
AddEdges(g, es) ==
  IF es = <<>> THEN g
  ELSE AddEdges(add_edge(g, Head(es)[1], Head(es)[2]), Tail(es))

(* main, steps 2 and 3: src = 0, wA = 1, wB = 2, agg = 3 *)
DiamondDAG(r) ==
  AddEdges(AddNodes(NewDAG(r), <<"InputReader", "WorkerA", "WorkerB", "Aggregator">>),
           << <<0, 1>>, <<0, 2>>, <<1, 3>>, <<2, 3>> >>)

(* a client that adds n nodes of payload "Task" and then the edges es *)
TaskDAG(r, n, es) ==
  AddEdges(AddNodes(NewDAG(r), [i \in 1 .. n |-> "Task"]), es)

EdgeSeqs(n) ==
  UNION { [1 .. k -> (0 .. (n - 1)) \X (0 .. (n - 1))] : k \in 0 .. MaxEdges }

Succs(g, u) == { At(g.adj, u)[k] : k \in 1 .. Len(At(g.adj, u)) }

Preds(g, v) == { u \in Ids(g.nodes) : v \in Succs(g, u) }

(* the nodes a run can never reach: Kahn's peeling leaves them *)
RECURSIVE Peel(_, _)
Peel(g, done) ==
  LET ready == { v \in Ids(g.nodes) \ done : Preds(g, v) \subseteq done }
  IN IF ready = {} THEN done ELSE Peel(g, done \cup ready)

IsAcyclic(g) == Peel(g, {}) = Ids(g.nodes)

(* the nodes reachable from the nodes of S by one or more edges *)
RECURSIVE Descendants(_, _, _)
Descendants(g, S, seen) ==
  LET next == UNION { Succs(g, u) : u \in S } \ seen
  IN IF next = {} THEN seen ELSE Descendants(g, next, seen \cup next)

OnCycle(g, v) == v \in Descendants(g, {v}, {})

(* the nodes on a cycle and the nodes reachable from one *)
BehindCycle(g) ==
  LET cyc == { v \in Ids(g.nodes) : OnCycle(g, v) }
  IN cyc \cup Descendants(g, cyc, {})

(* an unspecified size_t: zero or not *)
Indeterminate == {0, 1}

AllTaskDAGs ==
  { TaskDAG(r, n, es) : r \in Indeterminate, n \in 0 .. MaxNodes, es \in EdgeSeqs(MaxNodes) }

AcyclicDAGs == { g \in AllTaskDAGs : IsAcyclic(g) }

CyclicDAGs == { g \in AllTaskDAGs : ~IsAcyclic(g) }

(* ------------------------------- state -------------------------------- *)
VARIABLES
  dag,         \* the DAG<T> object: nodes, adj, base_indegree, current_indegree, remaining
  tasks,       \* ThreadPool::tasks
  stop,        \* ThreadPool::stop
  workers,     \* ThreadPool::workers: each thread's position and locals
  cpc,         \* the calling thread's position in execute_parallel
  ci,          \* the seed loop's i
  pass,        \* number of execute_parallel calls begun
  wait_mtx,    \* execute_parallel's wait_mtx: the set of threads holding it
  terminated,  \* std::terminate was called (an exception left a worker thread)
  started,     \* per node: work-function invocations begun in this pass
  finished,    \* per node: work-function invocations completed in this pass
  submits,     \* per node: the threads that enqueued its dispatch task in this pass
  zeroer,      \* per node: the threads whose fetch_sub on its counter returned 1
  observed,    \* per node: the port values its work function read in this pass
  log,         \* the pool's history of plain jobs: pushes, pops and calls, in order
  call         \* the client's last call on the DAG: its name, arguments and the graph before it

poolvars == <<tasks, stop, workers>>

ghostvars == <<started, finished, submits, zeroer, observed, log, call>>

vars == <<dag, tasks, stop, workers, cpc, ci, pass, wait_mtx, terminated,
          started, finished, submits, zeroer, observed, log, call>>

Workers == DOMAIN workers

(* the threads a pool can have within the bounds *)
WorkerIds == 1 .. MaxWorkers

(* where thread w is; a pool smaller than w has no such thread *)
Pc(w) == IF w \in Workers THEN workers[w].pc ELSE "absent"

NoTask == [fn |-> "none", arg |-> 0]

(* the closure [&dispatch, v] { dispatch(v); } *)
DispatchTask(v) == [fn |-> "dispatch", arg |-> v]

(* a plain job: a task that is not a dispatch closure; arg is its ticket, the
   number of its push *)
JobTask(k) == [fn |-> "job", arg |-> k]

NoLog == [enq |-> <<>>, deq |-> <<>>, run |-> <<>>]

(* a worker thread at the top of its loop *)
NewWorker == [pc |-> "idle", task |-> NoTask, i |-> 0, dangling |-> FALSE]

(* ThreadPool(threads): the state after construction *)
NewPool(threads) == [w \in 1 .. threads |-> NewWorker]

(* ----------------------------- ThreadPool ----------------------------- *)
(* cv.notify_one(): one of the threads blocked in cv.wait, if any *)
NotifyOne(ws) ==
  LET sleepers == { w \in DOMAIN ws : ws[w].pc = "sleep" }
  IN IF sleepers = {} THEN {ws}
     ELSE { [ws EXCEPT ![w].pc = "idle"] : w \in sleepers }

(* cv.notify_all() *)
NotifyAll(ws) ==
  [w \in DOMAIN ws |-> IF ws[w].pc = "sleep" THEN [ws[w] EXCEPT !.pc = "idle"] ELSE ws[w]]

(* the wait predicate of the worker loop *)
WaitPredicate == stop \/ tasks # <<>>

(* mutant: a stopped worker returns without looking at the queue *)
ShouldExit_Stop == stop

(* if (stop && tasks.empty()) return; *)
ShouldExit == stop /\ tasks = <<>>

(* tasks.push(std::move(f)) *)
Push(q, f) == Append(q, f)

(* mutant: the newest task is taken *)
Front_Back(q) == q[Len(q)]

(* tasks.front() *)
Front(q) == Head(q)

(* tasks.pop() *)
Pop(q) == Tail(q)

(* the worker loop from the lock to the unlock: wait, return or take a task *)
WorkerLoop(w) ==
  /\ Pc(w) = "idle"
  /\ IF ~WaitPredicate
     THEN /\ workers' = [workers EXCEPT ![w].pc = "sleep"]
          /\ UNCHANGED tasks
     ELSE IF ShouldExit
     THEN /\ workers' = [workers EXCEPT ![w].pc = "exited"]
          /\ UNCHANGED tasks
     ELSE /\ workers' = [workers EXCEPT ![w].pc = "task", ![w].task = Front(tasks)]
          /\ tasks' = Pop(tasks)

WorkerTake(w) ==
  /\ WorkerLoop(w)
  /\ UNCHANGED <<dag, stop, cpc, ci, pass, wait_mtx, terminated, ghostvars>>

(* a condition variable may wake a waiting thread at any time *)
WorkerSpuriousWake(w) ==
  /\ Pc(w) = "sleep"
  /\ workers' = [workers EXCEPT ![w].pc = "idle"]
  /\ UNCHANGED <<dag, tasks, stop, cpc, ci, pass, wait_mtx, terminated, ghostvars>>

(* ThreadPool::enqueue, first half: the push under queue_mutex *)
EnqueuePush(f) == tasks' = Push(tasks, f)

(* ------------------- ThreadPool with plain jobs ----------------------- *)
(* The owner of the pool is the thread that constructed it (thread 0): it
   enqueues jobs and then runs ~ThreadPool. A running job may enqueue more
   jobs, as dispatch does. *)
JobVarsUnchanged ==
  UNCHANGED <<dag, pass, wait_mtx, terminated, started, finished, submits, zeroer, observed, call>>

NextTicket == Len(log.enq) + 1

LogPush == [log EXCEPT !.enq = Append(@, [ticket |-> NextTicket, afterStop |-> stop])]

(* pool.enqueue(f) by the owner: the push *)
OwnerEnqueue ==
  /\ cpc = "start"
  /\ NextTicket <= MaxJobs
  /\ EnqueuePush(JobTask(NextTicket))
  /\ log' = LogPush
  /\ cpc' = "owner_notify"
  /\ UNCHANGED <<stop, workers, ci>>
  /\ JobVarsUnchanged

(* pool.enqueue(f) by the owner: cv.notify_one() *)
OwnerNotify ==
  /\ cpc = "owner_notify"
  /\ workers' \in NotifyOne(workers)
  /\ cpc' = "start"
  /\ UNCHANGED <<tasks, stop, ci, log>>
  /\ JobVarsUnchanged

(* ~ThreadPool: stop = true under queue_mutex *)
DtorStop ==
  /\ cpc = "start"
  /\ stop' = TRUE
  /\ cpc' = "dtor_notify"
  /\ UNCHANGED <<tasks, workers, ci, log>>
  /\ JobVarsUnchanged

(* ~ThreadPool: cv.notify_all() *)
DtorNotifyAll ==
  /\ cpc = "dtor_notify"
  /\ workers' = NotifyAll(workers)
  /\ cpc' = "join"
  /\ ci' = 1
  /\ UNCHANGED <<tasks, stop, log>>
  /\ JobVarsUnchanged

(* ~ThreadPool: worker.join() for each worker in turn, then the pool is gone *)
DtorJoin ==
  /\ cpc = "join"
  /\ IF ci \in Workers
     THEN /\ Pc(ci) = "exited"
          /\ ci' = ci + 1
          /\ UNCHANGED cpc
     ELSE /\ cpc' = "destroyed"
          /\ UNCHANGED ci
  /\ UNCHANGED <<tasks, stop, workers, log>>
  /\ JobVarsUnchanged

(* the worker loop, with the pop of a job recorded *)
JobTake(w) ==
  /\ WorkerLoop(w)
  /\ log' = IF Pc(w)' = "task" THEN [log EXCEPT !.deq = Append(@, workers'[w].task.arg)]
            ELSE log
  /\ UNCHANGED <<stop, cpc, ci>>
  /\ JobVarsUnchanged

(* task(): the job is called *)
JobStart(w) ==
  /\ Pc(w) = "task"
  /\ workers[w].task.fn = "job"
  /\ workers' = [workers EXCEPT ![w].pc = "job"]
  /\ log' = [log EXCEPT !.run = Append(@, workers[w].task.arg)]
  /\ UNCHANGED <<tasks, stop, cpc, ci>>
  /\ JobVarsUnchanged

(* pool.enqueue(f) from inside the running job: the push *)
JobEnqueue(w) ==
  /\ Pc(w) = "job"
  /\ NextTicket <= MaxJobs
  /\ EnqueuePush(JobTask(NextTicket))
  /\ log' = LogPush
  /\ workers' = [workers EXCEPT ![w].pc = "job_notify"]
  /\ UNCHANGED <<stop, cpc, ci>>
  /\ JobVarsUnchanged

(* pool.enqueue(f) from inside the running job: cv.notify_one() *)
JobNotify(w) ==
  /\ Pc(w) = "job_notify"
  /\ \E ws \in NotifyOne(workers) : workers' = [ws EXCEPT ![w].pc = "job"]
  /\ UNCHANGED <<tasks, stop, cpc, ci, log>>
  /\ JobVarsUnchanged

(* the job returns and the worker is back at the top of its loop *)
JobEnd(w) ==
  /\ Pc(w) = "job"
  /\ workers' = [workers EXCEPT ![w] = NewWorker]
  /\ UNCHANGED <<tasks, stop, cpc, ci, log>>
  /\ JobVarsUnchanged

(* ------------------------- the work function -------------------------- *)
Payload(g, id) == At(g.nodes, id).data

(* the ports the executor lambda reads for node id: main's lambda for the
   diamond's payloads; a "Task" reads the port of every predecessor *)
Reads(g, id) ==
  CASE Payload(g, id) = "InputReader" -> {}
    [] Payload(g, id) = "WorkerA" -> {0}
    [] Payload(g, id) = "WorkerB" -> {0}
    [] Payload(g, id) = "Aggregator" -> {1, 2}
    [] OTHER -> Preds(g, id)

(* the graph after the executor lambda's set_port_value for node id, rd being
   the values it read; a "Task" writes the number of the pass *)
Writes(g, id, rd, p) ==
  CASE Payload(g, id) = "InputReader" -> set_port_value(g, id, Holds(100))
    [] Payload(g, id) = "WorkerA" -> set_port_value(g, id, Holds(rd[0][1] + 50))
    [] Payload(g, id) = "WorkerB" -> set_port_value(g, id, Holds(rd[0][1] * 2))
    [] Payload(g, id) = "Aggregator" -> g
    [] OTHER -> set_port_value(g, id, Holds(p))

(* ------------------------ execute_parallel: dispatch ------------------ *)
Node(w) == workers[w].task.arg

(* mutant: the static in-degree is decremented with the live counter *)
FetchSubIndegree_Base(g, v) ==
  [g EXCEPT !.current_indegree[v + 1] = @ - 1, !.base_indegree[v + 1] = @ - 1]

(* current_indegree[v].fetch_sub(1): the graph afterwards *)
FetchSubIndegree(g, v) == [g EXCEPT !.current_indegree[v + 1] = @ - 1]

(* remaining.fetch_sub(1): size_t arithmetic is modulo 2^64; a value below
   zero here stands for that value plus 2^64, and the code only compares
   the counter with 0 and 1 *)
FetchSubRemaining(g) == [g EXCEPT !.remaining = @ - 1]

(* mutant: every decrement releases the successor *)
LastDependency_Any(old) == old >= 1

(* if (current_indegree[v].fetch_sub(1) == 1): old is the value returned *)
LastDependency(old) == old = 1

(* if (remaining.fetch_sub(1) == 1): old is the value returned *)
LastNode(old) == old = 1

(* mutant: the seed loop submits every node *)
IsRoot_All(g, i) == i \in Ids(g.nodes)

(* if (base_indegree[i] == 0) of the seed loop *)
IsRoot(g, i) == At(g.base_indegree, i) = 0

(* mutant: the wait ends one node early *)
AllDone_Early(g) == g.remaining <= 1

(* the predicate of wait_cv.wait: remaining.load() == 0 *)
AllDone(g) == g.remaining = 0

(* std::terminate: the process and every thread of it end *)
Aborted(ws) == [w \in DOMAIN ws |-> [ws[w] EXCEPT !.pc = "aborted"]]

(* mutant: the work function is started on a thread of its own and the
   worker goes back to its loop *)
ExecStart_Detached(w) ==
  /\ Pc(w) = "task"
  /\ workers[w].task.fn = "dispatch"
  /\ started' = [started EXCEPT ![Node(w)] = @ + 1]
  /\ workers' = [workers EXCEPT ![w] = NewWorker]
  /\ UNCHANGED <<dag, tasks, stop, cpc, ci, pass, wait_mtx, terminated,
                 finished, submits, zeroer, observed, log, call>>

(* the closure is called and calls executor(u, nodes[u].data): the lambda
   reads its input ports; any_cast of an empty any throws out of the thread *)
ExecStart(w) ==
  /\ Pc(w) = "task"
  /\ workers[w].task.fn = "dispatch"
  /\ LET u == Node(w)
         rd == [p \in Reads(dag, u) |-> get_port_value(dag, p)]
     IN /\ started' = [started EXCEPT ![u] = @ + 1]
        /\ observed' = [observed EXCEPT ![u] = rd]
        /\ IF \E p \in DOMAIN rd : rd[p] = EmptyAny
           THEN /\ terminated' = TRUE
                /\ workers' = Aborted(workers)
                /\ cpc' = "aborted"
           ELSE /\ workers' = [workers EXCEPT ![w].pc = "exec"]
                /\ UNCHANGED <<terminated, cpc>>
  /\ UNCHANGED <<dag, tasks, stop, ci, pass, wait_mtx, finished, submits, zeroer, log, call>>

(* the executor lambda writes its port and returns *)
ExecEnd(w) ==
  /\ Pc(w) = "exec"
  /\ LET u == Node(w)
     IN /\ dag' = Writes(dag, u, observed[u], pass)
        /\ finished' = [finished EXCEPT ![u] = @ + 1]
  /\ workers' = [workers EXCEPT ![w].pc = "resolve", ![w].i = 0]
  /\ UNCHANGED <<tasks, stop, cpc, ci, pass, wait_mtx, terminated,
                 started, submits, zeroer, observed, log, call>>

(* one iteration of for (NodeID v : adj[u]): the fetch_sub and its test *)
Resolve(w) ==
  /\ Pc(w) = "resolve"
  /\ workers[w].i < Len(At(dag.adj, Node(w)))
  /\ LET v == At(dag.adj, Node(w))[workers[w].i + 1]
         old == At(dag.current_indegree, v)
     IN /\ dag' = FetchSubIndegree(dag, v)
        /\ IF LastDependency(old)
           THEN /\ workers' = [workers EXCEPT ![w].pc = "enq_push"]
                /\ zeroer' = [zeroer EXCEPT ![v] = @ \cup {w}]
           ELSE /\ workers' = [workers EXCEPT ![w].i = @ + 1]
                /\ UNCHANGED zeroer
  /\ UNCHANGED <<tasks, stop, cpc, ci, pass, wait_mtx, terminated,
                 started, finished, submits, observed, log, call>>

(* pool.enqueue([&dispatch, v] { dispatch(v); }): the push *)
ResolveEnqueue(w) ==
  /\ Pc(w) = "enq_push"
  /\ LET v == At(dag.adj, Node(w))[workers[w].i + 1]
     IN /\ EnqueuePush(DispatchTask(v))
        /\ submits' = [submits EXCEPT ![v] = Append(@, w)]
  /\ workers' = [workers EXCEPT ![w].pc = "enq_notify"]
  /\ UNCHANGED <<dag, stop, cpc, ci, pass, wait_mtx, terminated,
                 started, finished, zeroer, observed, log, call>>

(* pool.enqueue: cv.notify_one() after the unlock; the loop goes on *)
ResolveNotify(w) ==
  /\ Pc(w) = "enq_notify"
  /\ \E ws \in NotifyOne(workers) :
       workers' = [ws EXCEPT ![w].pc = "resolve", ![w].i = @ + 1]
  /\ UNCHANGED <<dag, tasks, stop, cpc, ci, pass, wait_mtx, terminated, ghostvars>>

(* the loop is over: remaining.fetch_sub(1) == 1 decides who notifies *)
Finish(w) ==
  /\ Pc(w) = "resolve"
  /\ workers[w].i = Len(At(dag.adj, Node(w)))
  /\ dag' = FetchSubRemaining(dag)
  /\ IF LastNode(dag.remaining)
     THEN workers' = [workers EXCEPT ![w].pc = "lock"]
     ELSE workers' = [workers EXCEPT ![w] = NewWorker]
  /\ UNCHANGED <<tasks, stop, cpc, ci, pass, wait_mtx, terminated, ghostvars>>

(* mutant: the notifier does not take wait_mtx *)
NotifyLock_NoMutex(w) ==
  /\ Pc(w) = "lock"
  /\ workers' = [workers EXCEPT ![w].pc = "notify"]
  /\ UNCHANGED <<dag, tasks, stop, cpc, ci, pass, wait_mtx, terminated, ghostvars>>

(* std::lock_guard<std::mutex> lk(wait_mtx) *)
NotifyLock(w) ==
  /\ Pc(w) = "lock"
  /\ wait_mtx = {}
  /\ wait_mtx' = {w}
  /\ workers' = [workers EXCEPT ![w].pc = "notify"]
  /\ UNCHANGED <<dag, tasks, stop, cpc, ci, pass, terminated, ghostvars>>

(* wait_cv.notify_all(); the guard unlocks; dispatch and the task return *)
Notify(w) ==
  /\ Pc(w) = "notify"
  /\ cpc' = IF cpc = "wait" THEN "lock" ELSE cpc
  /\ wait_mtx' = wait_mtx \ {w}
  /\ workers' = [workers EXCEPT ![w] = NewWorker]
  /\ UNCHANGED <<dag, tasks, stop, ci, pass, terminated, ghostvars>>

(* the caller has returned and wait_mtx, wait_cv and dispatch are destroyed:
   the lock is undefined behaviour. It either acts on the storage (NotifyLock)
   or the thread never comes back from it *)
StaleFault(w) ==
  /\ Pc(w) = "lock"
  /\ workers[w].dangling
  /\ workers' = [workers EXCEPT ![w].pc = "fault"]
  /\ UNCHANGED <<dag, tasks, stop, cpc, ci, pass, wait_mtx, terminated, ghostvars>>

(* ------------------------ execute_parallel: caller -------------------- *)
NoCounts == [v \in Ids(dag.nodes) |-> 0]

(* a call of the client on the DAG object *)
Call(op, from, to) == [op |-> op, from |-> from, to |-> to, before |-> dag]

(* mutant: the early return is missing *)
NodesEmpty_Never(g) == FALSE

(* if (nodes.empty()) *)
NodesEmpty(g) == g.nodes = <<>>

(* if (nodes.empty()) return; reset(); the pass's locals are constructed *)
ExecuteBegin ==
  /\ cpc \in {"start", "returned"}
  /\ pass < MaxPasses
  /\ pass' = pass + 1
  /\ call' = Call("execute_parallel", 0, 0)
  /\ started' = NoCounts
  /\ finished' = NoCounts
  /\ submits' = [v \in Ids(dag.nodes) |-> <<>>]
  /\ zeroer' = [v \in Ids(dag.nodes) |-> {}]
  /\ observed' = [v \in Ids(dag.nodes) |-> <<>>]
  /\ IF NodesEmpty(dag)
     THEN /\ cpc' = "returned"
          /\ UNCHANGED <<dag, ci, wait_mtx>>
     ELSE /\ dag' = reset(dag)
          /\ wait_mtx' = {}
          /\ ci' = 0
          /\ cpc' = "seed"
  /\ UNCHANGED <<tasks, stop, workers, terminated, log>>

(* one iteration of the seed loop up to the push of enqueue *)
Seed ==
  /\ cpc = "seed"
  /\ ci < Len(dag.nodes)
  /\ IF IsRoot(dag, ci)
     THEN /\ EnqueuePush(DispatchTask(ci))
          /\ submits' = [submits EXCEPT ![ci] = Append(@, Caller)]
          /\ cpc' = "seed_notify"
          /\ UNCHANGED ci
     ELSE /\ ci' = ci + 1
          /\ UNCHANGED <<tasks, submits, cpc>>
  /\ UNCHANGED <<dag, stop, workers, pass, wait_mtx, terminated,
                 started, finished, zeroer, observed, log, call>>

(* pool.enqueue: cv.notify_one() after the unlock; ++i *)
SeedNotify ==
  /\ cpc = "seed_notify"
  /\ workers' \in NotifyOne(workers)
  /\ ci' = ci + 1
  /\ cpc' = "seed"
  /\ UNCHANGED <<dag, tasks, stop, pass, wait_mtx, terminated, ghostvars>>

(* std::unique_lock lk(wait_mtx), and the re-lock when wait_cv.wait wakes *)
CallerLock ==
  /\ \/ cpc = "seed" /\ ci = Len(dag.nodes)
     \/ cpc = "lock"
  /\ wait_mtx = {}
  /\ wait_mtx' = {Caller}
  /\ cpc' = "check"
  /\ UNCHANGED <<dag, tasks, stop, workers, ci, pass, terminated, ghostvars>>

(* the workers that still have to touch the pass's locals when they die *)
MarkDangling(ws) ==
  [w \in DOMAIN ws |->
     IF ws[w].pc \in {"lock", "notify"} THEN [ws[w] EXCEPT !.dangling = TRUE] ELSE ws[w]]

(* wait_cv.wait(lk, pred): with the lock held, pred is evaluated; if it holds
   the caller returns: lk unlocks and the locals are destroyed *)
CallerCheck ==
  /\ cpc = "check"
  /\ IF AllDone(dag)
     THEN /\ cpc' = "returned"
          /\ wait_mtx' = {}
          /\ workers' = MarkDangling(workers)
     ELSE /\ cpc' = "block"
          /\ UNCHANGED <<wait_mtx, workers>>
  /\ UNCHANGED <<dag, tasks, stop, ci, pass, terminated, ghostvars>>

(* wait_cv.wait(lk): the lock is released and the caller blocks, atomically *)
CallerBlock ==
  /\ cpc = "block"
  /\ cpc' = "wait"
  /\ wait_mtx' = {}
  /\ UNCHANGED <<dag, tasks, stop, workers, ci, pass, terminated, ghostvars>>

(* a condition variable may wake a waiting thread at any time *)
CallerSpuriousWake ==
  /\ cpc = "wait"
  /\ cpc' = "lock"
  /\ UNCHANGED <<dag, tasks, stop, workers, ci, pass, wait_mtx, terminated, ghostvars>>

(* ----------------- the client between two passes ---------------------- *)
(* The thread that owns the DAG builds the graph before the first pass, as
   main does, and may call reset whenever no pass is in flight. *)
Building == cpc = "start" /\ pass = 0

BetweenPasses == cpc \in {"start", "returned"}

(* the number of entries across all successor lists *)
RECURSIVE SumLen(_)
SumLen(ss) == IF ss = <<>> THEN 0 ELSE Len(Head(ss)) + SumLen(Tail(ss))

(* a per-node record of the pass, extended to the nodes added since *)
Extend(f, g, init) == [v \in Ids(g.nodes) |-> IF v \in DOMAIN f THEN f[v] ELSE init]

(* id = dag.add_node(data) *)
ClientAddNode ==
  /\ Building
  /\ Len(dag.nodes) < MaxNodes
  /\ dag' = add_node(dag, "Task")
  /\ call' = Call("add_node", 0, 0)
  /\ cpc' = "start"
  /\ started' = Extend(started, dag', 0)
  /\ finished' = Extend(finished, dag', 0)
  /\ submits' = Extend(submits, dag', <<>>)
  /\ zeroer' = Extend(zeroer, dag', {})
  /\ observed' = Extend(observed, dag', <<>>)
  /\ UNCHANGED <<tasks, stop, workers, ci, pass, wait_mtx, terminated, log>>

(* dag.add_edge(from, to), with any two handles, valid or not *)
ClientAddEdge(from, to) ==
  /\ Building
  /\ SumLen(dag.adj) < MaxEdges
  /\ dag' = add_edge(dag, from, to)
  /\ call' = Call("add_edge", from, to)
  /\ cpc' = "start"
  /\ UNCHANGED <<tasks, stop, workers, ci, pass, wait_mtx, terminated,
                 started, finished, submits, zeroer, observed, log>>

(* dag.reset() *)
ClientReset ==
  /\ BetweenPasses
  /\ dag' = reset(dag)
  /\ call' = Call("reset", 0, 0)
  /\ cpc' = "start"
  /\ UNCHANGED <<tasks, stop, workers, ci, pass, wait_mtx, terminated,
                 started, finished, submits, zeroer, observed, log>>

(* --------------------------- specifications --------------------------- *)
InitWith(g, threads) ==
  /\ dag = g
  /\ tasks = <<>>
  /\ stop = FALSE
  /\ workers = NewPool(threads)
  /\ cpc = "start"
  /\ ci = 0
  /\ pass = 0
  /\ wait_mtx = {}
  /\ terminated = FALSE
  /\ started = [v \in Ids(g.nodes) |-> 0]
  /\ finished = [v \in Ids(g.nodes) |-> 0]
  /\ submits = [v \in Ids(g.nodes) |-> <<>>]
  /\ zeroer = [v \in Ids(g.nodes) |-> {}]
  /\ observed = [v \in Ids(g.nodes) |-> <<>>]
  /\ log = NoLog
  /\ call = [op |-> "DAG", from |-> 0, to |-> 0, before |-> g]

(* main's diamond, with either value of the uninitialised counter *)
DiamondDAGs == { DiamondDAG(r) : r \in Indeterminate }

Init ==
  \E g \in AcyclicDAGs \cup DiamondDAGs, threads \in 1 .. MaxWorkers : InitWith(g, threads)

Next ==
  \/ ExecuteBegin
  \/ Seed
  \/ SeedNotify
  \/ CallerLock
  \/ CallerCheck
  \/ CallerBlock
  \/ CallerSpuriousWake
  \/ \E w \in WorkerIds : WorkerTake(w)
  \/ \E w \in WorkerIds : WorkerSpuriousWake(w)
  \/ \E w \in WorkerIds : ExecStart(w)
  \/ \E w \in WorkerIds : ExecEnd(w)
  \/ \E w \in WorkerIds : Resolve(w)
  \/ \E w \in WorkerIds : ResolveEnqueue(w)
  \/ \E w \in WorkerIds : ResolveNotify(w)
  \/ \E w \in WorkerIds : Finish(w)
  \/ \E w \in WorkerIds : NotifyLock(w)
  \/ \E w \in WorkerIds : Notify(w)
  \/ \E w \in WorkerIds : StaleFault(w)

Spec == Init /\ [][Next]_vars

(* every thread that can take a step of the code eventually takes it; a
   spurious wake-up, a new call by the client and the outcome of undefined
   behaviour are not owed *)
WorkerFairness(w) ==
  /\ WF_vars(WorkerTake(w))
  /\ WF_vars(ExecStart(w))
  /\ WF_vars(ExecEnd(w))
  /\ WF_vars(Resolve(w))
  /\ WF_vars(ResolveEnqueue(w))
  /\ WF_vars(ResolveNotify(w))
  /\ WF_vars(Finish(w))
  /\ SF_vars(NotifyLock(w))
  /\ WF_vars(Notify(w))

CallerFairness ==
  /\ WF_vars(Seed)
  /\ WF_vars(SeedNotify)
  /\ SF_vars(CallerLock)
  /\ WF_vars(CallerCheck)
  /\ WF_vars(CallerBlock)

(* any graph a client can build, cyclic or not *)
InitAnyGraph ==
  \E g \in AllTaskDAGs \cup DiamondDAGs, threads \in 1 .. MaxWorkers : InitWith(g, threads)

SpecAnyGraph == InitAnyGraph /\ [][Next]_vars

(* a pool of any size ThreadPool(size_t) accepts, used for plain jobs *)
InitPool ==
  \E r \in Indeterminate, threads \in 0 .. MaxWorkers : InitWith(NewDAG(r), threads)

NextPool ==
  \/ OwnerEnqueue
  \/ OwnerNotify
  \/ DtorStop
  \/ DtorNotifyAll
  \/ DtorJoin
  \/ \E w \in WorkerIds : JobTake(w)
  \/ \E w \in WorkerIds : WorkerSpuriousWake(w)
  \/ \E w \in WorkerIds : JobStart(w)
  \/ \E w \in WorkerIds : JobEnqueue(w)
  \/ \E w \in WorkerIds : JobNotify(w)
  \/ \E w \in WorkerIds : JobEnd(w)

SpecPool == InitPool /\ [][NextPool]_vars

FairSpec == Spec /\ CallerFairness /\ \A w \in WorkerIds : WorkerFairness(w)

(* a client that builds its graph call by call, starting from an empty DAG,
   and resets and runs it in any order; a handle is any value up to MaxNodes,
   which is never a valid one *)
InitClient ==
  \E r \in Indeterminate, threads \in 1 .. MaxWorkers : InitWith(NewDAG(r), threads)

NextClient ==
  \/ ClientAddNode
  \/ \E from \in 0 .. MaxNodes, to \in 0 .. MaxNodes : ClientAddEdge(from, to)
  \/ ClientReset
  \/ Next

SpecClient == InitClient /\ [][NextClient]_vars

(* ------------------------------ properties ---------------------------- *)
NodeIds == Ids(dag.nodes)

Returned == cpc = "returned"

(* C1: when execute_parallel returns, the work function has been invoked
   exactly once for every node in that pass: every node was started once
   and completed once, none skipped and none run twice. *)
C1_ExactlyOnce ==
  Returned => \A v \in NodeIds : started[v] = 1 /\ finished[v] = 1

(* a pass over a three-node graph with a join ran on two workers and returned *)
C1_Witness ==
  /\ Returned
  /\ Len(dag.nodes) = 3
  /\ Cardinality(Workers) = 2
  /\ \E v \in NodeIds : Cardinality(Preds(dag, v)) = 2
  /\ \A v \in NodeIds : started[v] = 1

(* C2: for every edge (from, to), duplicates included, the work function of
   `to` has not started unless the work function of `from` has completed
   in this pass. *)
C2_EdgeOrder ==
  \A u \in NodeIds : \A v \in Succs(dag, u) :
    started[v] > 0 => finished[u] > 0

(* a node whose one incoming edge was added twice is running *)
C2_Witness ==
  \E u \in NodeIds : \E v \in NodeIds :
    /\ At(dag.adj, u) = <<v, v>>
    /\ started[v] = 1
    /\ finished[v] = 0

(* C4: in every pass each node's dispatch task is submitted at most once, and
   exactly once by the time the pass returns; a node of static in-degree
   zero is submitted by the calling thread's seed loop, any other node by
   the one thread whose fetch_sub took its live counter from 1 to 0. *)
C4_SubmittedOnce ==
  \A v \in NodeIds :
    /\ Len(submits[v]) <= 1
    /\ Cardinality(zeroer[v]) <= 1
    /\ Returned => Len(submits[v]) = 1
    /\ submits[v] # <<>> =>
         IF At(dag.base_indegree, v) = 0
         THEN submits[v][1] = Caller
         ELSE submits[v][1] \in zeroer[v]

(* two predecessors of one node resolve it at the same time on two workers:
   one has just pushed the node, the other has already decremented *)
C4_Witness ==
  \E v \in NodeIds : \E w1 \in Workers : \E w2 \in Workers :
    /\ w1 # w2
    /\ Pc(w1) = "enq_notify"
    /\ Pc(w2) = "resolve"
    /\ workers[w2].i = 1
    /\ Node(w1) # Node(w2)
    /\ {Node(w1), Node(w2)} = Preds(dag, v)
    /\ submits[v] = <<w1>>

(* C5: in every pass after the first, with no reset by the caller, each
   edge's order is respected, no node runs twice, and when the pass returns
   every node has run exactly once. *)
C5_RepeatedPasses ==
  pass >= 2 =>
    /\ \A u \in NodeIds : \A v \in Succs(dag, u) : started[v] >= 1 => finished[u] = 1
    /\ \A v \in NodeIds : started[v] <= 1 /\ finished[v] <= started[v]
    /\ Returned => \A v \in NodeIds : finished[v] = 1

(* the second pass over a graph with edges has returned *)
C5_Witness ==
  /\ pass = 2
  /\ Returned
  /\ \E v \in NodeIds : At(dag.base_indegree, v) > 0
  /\ \A v \in NodeIds : finished[v] = 1

(* what node p's work function writes to its port in the current pass *)
PortOf(p) ==
  CASE Payload(dag, p) = "InputReader" -> Holds(100)
    [] Payload(dag, p) = "WorkerA" -> Holds(150)
    [] Payload(dag, p) = "WorkerB" -> Holds(200)
    [] OTHER -> Holds(pass)

(* C6: a work function that reads a predecessor's port observes the value the
   predecessor wrote in the current pass, and no read finds the port empty;
   in the diamond the Aggregator observes (150, 200), sum 350. *)
C6_PortsVisible ==
  /\ ~terminated
  /\ \A v \in NodeIds :
       started[v] > 0 =>
         /\ observed[v] = [p \in Reads(dag, v) |-> PortOf(p)]
         /\ Payload(dag, v) = "Aggregator" =>
              /\ observed[v][1] = Holds(150)
              /\ observed[v][2] = Holds(200)
              /\ observed[v][1][1] + observed[v][2][1] = 350

(* the diamond's Aggregator has run on a pool of two workers and read 150
   and 200 *)
C6_Witness ==
  /\ Len(dag.nodes) = 4
  /\ Payload(dag, 3) = "Aggregator"
  /\ Cardinality(Workers) >= 2
  /\ finished[3] = 1
  /\ observed[3][1][1] + observed[3][2][1] = 350

(* C7 as stated: whenever execute_parallel returns, every live in-degree
   counter is zero and the remaining counter is zero. *)
C7_CountersZero_AnyGraph ==
  Returned =>
    /\ \A i \in DOMAIN dag.current_indegree : dag.current_indegree[i] = 0
    /\ dag.remaining = 0

(* C7, amended: whenever execute_parallel returns on a graph with at least one
   node, there is a live counter for every node, each is zero, and the
   remaining counter is zero. *)
C7_CountersZero ==
  (Returned /\ dag.nodes # <<>>) =>
    /\ Len(dag.current_indegree) = Len(dag.nodes)
    /\ \A v \in NodeIds : At(dag.current_indegree, v) = 0
    /\ dag.remaining = 0

(* a pass over a graph with a doubled edge has returned *)
C7_Witness ==
  /\ Returned
  /\ \E v \in NodeIds : At(dag.base_indegree, v) = 2
  /\ dag.remaining = 0

InPass == cpc \in {"seed", "seed_notify", "lock", "check", "block", "wait"}

(* C3: under fair scheduling every call of execute_parallel on a non-empty
   acyclic graph, with a pool of at least one worker, eventually returns. *)
C3_EventuallyReturns == [](InPass => <>Returned)

(* the first call on a fresh pool eventually returns *)
FirstPassReturns == []((InPass /\ pass = 1) => <>Returned)

(* C8: on a graph with a cycle (a self-edge included) execute_parallel never
   returns and nothing reports an error; no node on a cycle or reachable from
   one is ever submitted or executed, its live counter stays above zero and
   the remaining counter stays above zero. *)
C8_CycleHangs ==
  ~IsAcyclic(dag) =>
    /\ ~Returned
    /\ ~terminated
    /\ cpc # "aborted"
    /\ \A v \in BehindCycle(dag) : submits[v] = <<>> /\ started[v] = 0
    /\ pass >= 1 =>
         /\ \A v \in BehindCycle(dag) : At(dag.current_indegree, v) > 0
         /\ dag.remaining > 0

(* the hang: a root has run, its successor sits behind a self-edge, the queue
   is empty, every worker sleeps and the caller waits *)
C8_Witness ==
  /\ cpc = "wait"
  /\ tasks = <<>>
  /\ \A w \in Workers : Pc(w) = "sleep"
  /\ \E u \in NodeIds : \E v \in NodeIds :
       /\ u # v
       /\ finished[u] = 1
       /\ v \in Succs(dag, u)
       /\ v \in Succs(dag, v)
       /\ started[v] = 0

Range(q) == { q[k] : k \in 1 .. Len(q) }

(* the tickets of the jobs pushed after ~ThreadPool set stop *)
AfterStop == { k \in 1 .. Len(log.enq) : log.enq[k].afterStop }

AllExited == Workers # {} /\ \A w \in Workers : Pc(w) = "exited"

(* C9 as stated: a task enqueued after the destructor has set stop is never
   run by any worker. *)
C9_AfterStopNeverRun == \A k \in AfterStop : k \notin Range(log.run)

(* C9, amended: a task that a running task enqueues after the destructor has
   set stop is still run: a worker returns only when it finds stop set and
   the queue empty, so once every worker of a pool with at least one worker
   has returned, the queue is empty and every such task has been called. *)
C9_AfterStopDrained ==
  AllExited => tasks = <<>> /\ \A k \in AfterStop : k \in Range(log.run)

(* every worker has returned and a job pushed after stop has been called *)
C9_Witness ==
  /\ AllExited
  /\ cpc = "destroyed"
  /\ \E k \in AfterStop : k \in Range(log.run)

(* C10 as stated: for t1 enqueued before t2, t1 has been dequeued and
   started by the time any worker dequeues t2. *)
C10_StartedInOrder ==
  \A k2 \in Range(log.deq) : \A k1 \in 1 .. (k2 - 1) : k1 \in Range(log.run)

(* C10, amended: tasks leave the queue in the order they were enqueued: for t1
   enqueued before t2, t1 is dequeued no later than t2; the order in which
   the workers then call and complete them is not constrained. *)
C10_DequeuedInOrder ==
  /\ Len(log.deq) <= Len(log.enq)
  /\ \A k \in 1 .. Len(log.deq) : log.deq[k] = log.enq[k].ticket

(* two workers took the first two jobs in order and called them in the
   opposite order *)
C10_Witness ==
  /\ Len(log.deq) >= 2
  /\ log.deq[1] = 1
  /\ log.deq[2] = 2
  /\ Len(log.run) >= 2
  /\ log.run[1] = 2
  /\ log.run[2] = 1

(* ------------------------- properties of the client's calls ------------ *)
(* the number of successor-list entries that name v *)
InEdges(g, v) ==
  Cardinality({ <<u, k>> \in Ids(g.nodes) \X (1 .. MaxEdges) :
                  k <= Len(At(g.adj, u)) /\ At(g.adj, u)[k] = v })

RECURSIVE Sum(_)
Sum(q) == IF q = <<>> THEN 0 ELSE Head(q) + Sum(Tail(q))

(* the last call was add_edge with a handle that is not a node *)
OutOfRangeEdge ==
  /\ call.op = "add_edge"
  /\ call.from >= Len(call.before.nodes) \/ call.to >= Len(call.before.nodes)

(* C11: add_edge(from, to) with `from` or `to` not smaller than the node count
   is a silent no-op: the nodes, every successor list and every static
   in-degree (and the run-state) are as before the call, so what follows is
   what would have followed without it. *)
C11_OutOfRangeNoOp ==
  OutOfRangeEdge => dag = call.before /\ ~terminated /\ cpc = "start"

(* add_edge was called on a graph with nodes and edges, `from` valid and `to`
   equal to the node count *)
C11_Witness ==
  /\ call.op = "add_edge"
  /\ call.from < Len(dag.nodes)
  /\ call.to = Len(dag.nodes)
  /\ SumLen(dag.adj) >= 1
  /\ dag = call.before

(* C12: after any sequence of add_node and add_edge calls the static
   in-degrees sum to the number of edges added, which is the number of
   entries across all successor lists, and each node's static in-degree is
   the number of entries that name it, duplicates counted. *)
C12_IndegreeCountsEdges ==
  /\ Len(dag.adj) = Len(dag.nodes)
  /\ Len(dag.base_indegree) = Len(dag.nodes)
  /\ Sum(dag.base_indegree) = SumLen(dag.adj)
  /\ \A v \in NodeIds : At(dag.base_indegree, v) = InEdges(dag, v)
  /\ \A u \in NodeIds : Succs(dag, u) \subseteq NodeIds
  /\ call.op = "add_edge" =>
       SumLen(dag.adj) = SumLen(call.before.adj) + (IF OutOfRangeEdge THEN 0 ELSE 1)
  /\ call.op = "add_node" =>
       /\ SumLen(dag.adj) = SumLen(call.before.adj)
       /\ Len(dag.nodes) = Len(call.before.nodes) + 1
       /\ At(dag.base_indegree, Len(dag.nodes) - 1) = 0

(* the same edge was added twice, and a node was added after an edge *)
C12_Witness ==
  /\ call.op = "add_edge"
  /\ ~OutOfRangeEdge
  /\ At(dag.adj, call.from) = <<call.to, call.to>>
  /\ At(dag.base_indegree, call.to) = 2
  /\ Len(dag.nodes) = 3
  /\ At(dag.adj, 2) = <<>>
  /\ At(dag.base_indegree, 2) = 0

(* the tickets of the jobs pushed while the pool was live *)
BeforeStop == { k \in 1 .. Len(log.enq) : ~log.enq[k].afterStop }

(* C13: every constructed pool has at least one worker thread, so that a
   task submitted to a live pool is run: by the time the pool has been
   destroyed every such task has been called. *)
C13_AtLeastOneWorker ==
  /\ Cardinality(Workers) >= 1
  /\ cpc = "destroyed" => \A k \in BeforeStop : k \in Range(log.run)

Port(g, v) == At(g.nodes, v).output

(* the last call was reset(), or execute_parallel, which calls it *)
ResetCalled == call.op \in {"reset", "execute_parallel"}

(* C14: a port written during a pass holds the value written when the pass
   returns and afterwards; reset(), called by the client or at the start of
   the next pass, changes no port, so in the next pass a port has its
   previous-pass value until its node has run again. *)
C14_PortsKept ==
  /\ \A v \in NodeIds : finished[v] >= 1 => Port(dag, v) = PortOf(v)
  /\ call.op = "reset" => dag.nodes = call.before.nodes
  /\ call.op = "execute_parallel" =>
       \A v \in NodeIds :
         finished[v] = 0 =>
           /\ Port(dag, v) = Port(call.before, v)
           /\ pass >= 2 => Port(dag, v) = Holds(pass - 1)

(* the client called reset() after the first pass; in the second pass one
   node has written again and another still holds its first-pass value *)
C14_Witness ==
  /\ pass = 2
  /\ call.op = "execute_parallel"
  /\ call.before.remaining = Len(dag.nodes)
  /\ \E u \in NodeIds : \E v \in NodeIds :
       /\ finished[u] = 1
       /\ Port(dag, u) = Holds(2)
       /\ finished[v] = 0
       /\ Port(dag, v) = Holds(1)

(* the run-state is the one reset() leaves *)
IsReset(g) ==
  /\ Len(g.current_indegree) = Len(g.nodes)
  /\ \A v \in Ids(g.nodes) : At(g.current_indegree, v) = At(g.base_indegree, v)
  /\ g.remaining = Len(g.nodes)

(* C16: after reset() there is a live counter for every node, nodes added
   since the last reset included, each equal to the node's static in-degree,
   and the remaining counter is the node count; a reset() that follows a
   reset() changes nothing, however often and wherever between passes it is
   called. *)
C16_ResetIdempotent ==
  call.op = "reset" =>
    /\ IsReset(dag)
    /\ IsReset(call.before) => dag = call.before
    /\ cpc = "start"

(* between two passes reset() was called on an already reset graph with an
   edge *)
C16_Witness ==
  /\ call.op = "reset"
  /\ pass = 1
  /\ IsReset(call.before)
  /\ dag = call.before
  /\ \E v \in NodeIds : At(dag.base_indegree, v) >= 1

(* the live-counter array was shorter than the node vector before reset() *)
C16_Resized ==
  /\ call.op = "reset"
  /\ Len(call.before.current_indegree) = 1
  /\ Len(dag.current_indegree) = 3

(* nodes' payloads, successor lists and static in-degrees *)
Structure(g) ==
  [data |-> [i \in 1 .. Len(g.nodes) |-> g.nodes[i].data],
   adj |-> g.adj,
   base_indegree |-> g.base_indegree]

(* C17: reset() and execute_parallel never modify the node set, a successor
   list or a static in-degree: at every moment of a pass and after it they
   are what they were when the call was made. *)
C17_StructureReadOnly ==
  ResetCalled => Structure(dag) = Structure(call.before)

(* in the second pass a live counter has been decremented and a port
   rewritten *)
C17_Witness ==
  /\ call.op = "execute_parallel"
  /\ pass = 2
  /\ \E v \in NodeIds :
       /\ At(dag.base_indegree, v) = 2
       /\ At(dag.current_indegree, v) = 1
  /\ \E u \in NodeIds : Port(dag, u) # Port(call.before, u)

(* worker w is inside a dispatch task *)
InDispatch(w) == Pc(w) \in {"task", "exec", "resolve", "enq_push", "enq_notify", "lock", "notify", "fault"}

(* C15: when execute_parallel returns no dispatch task of the pass is still
   in progress: every worker is back in its loop, so none has yet to lock
   wait_mtx, signal wait_cv or return through the dispatch closure. *)
C15_NoTaskInProgressAtReturn ==
  Returned => \A w \in Workers : ~InDispatch(w)

(* the nodes whose work function is in progress *)
InProgress == { v \in NodeIds : started[v] > finished[v] }

(* there is no dependency path between u and v *)
Independent(u, v) ==
  /\ u # v
  /\ v \notin Descendants(dag, {u}, {})
  /\ u \notin Descendants(dag, {v}, {})

(* C18: in every reachable state the number of work functions in progress is
   at most the pool's worker count, each on a worker of its own; two nodes
   with no dependency path between them can be in progress at the same time
   on a pool of two workers, and then either may complete first. *)
C18_BoundedByPool ==
  /\ Cardinality(InProgress) <= Cardinality(Workers)
  /\ \A v \in InProgress : \E w \in Workers : Pc(w) = "exec" /\ Node(w) = v

(* two independent nodes are in progress on two workers, and each of the two
   work functions can be the next to complete *)
C18_Witness ==
  \E u \in NodeIds : \E v \in NodeIds :
    /\ Independent(u, v)
    /\ InProgress = {u, v}
    /\ Cardinality(Workers) = 2
    /\ Pc(1) = "exec" /\ Node(1) = u
    /\ Pc(2) = "exec" /\ Node(2) = v
    /\ ENABLED ExecEnd(1)
    /\ ENABLED ExecEnd(2)

(* the first of two independent roots has completed while the second is
   still in progress *)
C18_FirstCompletesFirst ==
  /\ Len(dag.nodes) >= 2
  /\ Cardinality(Workers) = 2
  /\ Independent(0, 1)
  /\ finished[0] = 1
  /\ InProgress = {1}

(* the second has completed while the first is still in progress *)
C18_SecondCompletesFirst ==
  /\ Len(dag.nodes) >= 2
  /\ Cardinality(Workers) = 2
  /\ Independent(0, 1)
  /\ finished[1] = 1
  /\ InProgress = {0}

(* C19: execute_parallel on a graph with no nodes returns at once: no task
   is ever in the queue or on a worker, the work function is never invoked,
   and the caller never seeds, locks wait_mtx or waits. *)
C19_EmptyReturnsAtOnce ==
  dag.nodes = <<>> =>
    /\ tasks = <<>>
    /\ \A w \in Workers : Pc(w) \in {"idle", "sleep"}
    /\ cpc \in {"start", "returned"}
    /\ wait_mtx = {}
    /\ ~terminated

(* execute_parallel has been called twice on an empty graph and has returned *)
C19_Witness ==
  /\ dag.nodes = <<>>
  /\ pass = 2
  /\ Returned
  /\ call.op = "execute_parallel"

(* the worker that is resolving the successors of u, if any *)
Resolving(u) ==
  { w \in Workers : Pc(w) \in {"resolve", "enq_push", "enq_notify"} /\ Node(w) = u }

(* how many entries of adj[u] the dispatch task of u has decremented in this
   pass: none before its work function has returned, all once it has left
   the loop *)
ResolvedCount(u) ==
  IF finished[u] = 0 THEN 0
  ELSE IF Resolving(u) = {} THEN Len(At(dag.adj, u))
  ELSE LET w == CHOOSE x \in Resolving(u) : TRUE
       IN workers[w].i + (IF Pc(w) = "resolve" THEN 0 ELSE 1)

(* the incoming edges of v whose source has resolved them *)
ResolvedInto(v) ==
  Cardinality({ <<u, k>> \in NodeIds \X (1 .. MaxEdges) :
                  /\ k <= ResolvedCount(u)
                  /\ At(dag.adj, u)[k] = v })

(* the nodes whose dispatch task has decremented the remaining counter *)
Done == { u \in NodeIds : finished[u] >= 1 /\ Resolving(u) = {} }

(* each live counter is the static in-degree minus the resolved incoming
   edges and the remaining counter is the node count minus the finished
   nodes, both within their ranges *)
CountersInRange ==
  /\ Len(dag.current_indegree) = Len(dag.nodes)
  /\ \A v \in NodeIds :
       /\ At(dag.current_indegree, v) >= 0
       /\ At(dag.current_indegree, v) <= At(dag.base_indegree, v)
       /\ At(dag.current_indegree, v) = At(dag.base_indegree, v) - ResolvedInto(v)
  /\ dag.remaining >= 0
  /\ dag.remaining <= Len(dag.nodes)
  /\ dag.remaining = Len(dag.nodes) - Cardinality(Done)

(* C20 as stated: in every state from the first call of execute_parallel on,
   on any graph, each live in-degree counter lies between 0 and the static
   in-degree and equals the static in-degree minus the number of incoming
   edges whose source has resolved them, and the remaining counter lies
   between 0 and the node count and equals the node count minus the number
   of nodes that have finished. *)
C20_CountersInRange_AnyGraph == pass >= 1 => CountersInRange

(* C20, amended: the same in every state of a pass on a graph with at least
   one node, cyclic or not; no counter goes below zero, neither a live
   in-degree counter nor (as a size_t wrap-around) the remaining counter. *)
C20_CountersInRange == (pass >= 1 /\ dag.nodes # <<>>) => CountersInRange

(* a pass on a cyclic graph hangs with a counter of static in-degree 2 at 1 *)
C20_Witness ==
  /\ ~IsAcyclic(dag)
  /\ cpc = "wait"
  /\ dag.remaining = Len(dag.nodes) - 1
  /\ \E v \in NodeIds :
       /\ At(dag.base_indegree, v) = 2
       /\ At(dag.current_indegree, v) = 1

(* a pass on an acyclic graph: two sources are resolving the same node, one
   has decremented its counter and the other has not *)
C20_Concurrent ==
  \E v \in NodeIds :
    /\ pass >= 1
    /\ IsAcyclic(dag)
    /\ At(dag.base_indegree, v) = 2
    /\ At(dag.current_indegree, v) = 1
    /\ Cardinality({ u \in NodeIds : Resolving(u) # {} /\ v \in Succs(dag, u) }) = 2
====
